---- MODULE Spec2Model ----
(***************************************************************************)
(* A model of src/main.py (Find AI, an educational chat backend): the      *)
(* in-memory store and its HTTP handlers, the document ingestion           *)
(* functions and the shaping of the model's reply.                         *)
(*                                                                         *)
(* Conventions.                                                            *)
(*  - A Python dict is a sequence of records in insertion order (dicts     *)
(*    keep insertion order, and deleting a key keeps the order of the      *)
(*    rest); every record carries its key in the field id.                 *)
(*  - str(uuid.uuid4()) is a fresh identifier: the next number of the      *)
(*    counter of its kind of record (identifiers of different kinds are    *)
(*    never compared, except a chat_id a client made up, which is          *)
(*    NoSuchChat: an identifier uuid4 never issues).                       *)
(*  - datetime.now(timezone.utc).isoformat() is a reading of the wall      *)
(*    clock.  The ISO strings of one timezone compare as the instants do,  *)
(*    so a reading is a number.  Two successive readings may be equal      *)
(*    (the clock's resolution); the clock is assumed not to step back.     *)
(*  - A text is a sequence of one-character strings.  A fixed message of   *)
(*    the program is one element holding the whole message.                *)
(*  - An Optional value is a sequence: <<>> for None, <<v>> for v.         *)
(*  - A handler that awaits nothing that suspends runs as one step.  Only  *)
(*    upload_files suspends: at asyncio.gather, and each of its tasks at   *)
(*    file.read().  The model holds one upload_files request in flight at  *)
(*    a time; file.read() is taken to return the bytes.                    *)
(*  - GENAI_AVAILABLE is set once, by the import at the top of the file,   *)
(*    and only generate_ai_response reads it.  The model draws its value   *)
(*    when it is first read and keeps it from then on: the behaviours are  *)
(*    those of drawing it at the start.                                    *)
(***************************************************************************)
EXTENDS Integers, Sequences, FiniteSets, TLC

VARIABLES
    memory_chats,      \* src/main.py:58
    memory_messages,   \* src/main.py:59
    memory_files,      \* src/main.py:60
    GENAI_AVAILABLE,   \* src/main.py:24-29: "yes", "no", or "unread"
    clock,             \* the last reading of the wall clock
    n_uuid,            \* identifiers uuid4 has issued so far, per kind of record
    up,                \* the upload_files request in flight, if any
    last,              \* the last step that changed the state, and its answer
    call,              \* the function under study and its argument
    ret                \* its result, <<>> before it has run

vars == <<memory_chats, memory_messages, memory_files, GENAI_AVAILABLE, clock,
          n_uuid, up, last, call, ret>>

store == <<memory_chats, memory_messages, memory_files>>

----------------------------------------------------------------------------
(* Bounds of the model. *)

\* The records a run creates: chats, messages and documents together.
MaxUuids == 4
\* The files of one upload_files request.
MaxBatch == 2
\* The last reading of the clock; the first is 0.
MaxClock == 1
\* The length of a text given to extract_questions.
MaxTextLen == 7
\* The length of the content of a file given to extract_text_from_file.
MaxBytes == 3

\* The window of prior turns: [...][-6:] and previous_messages[-6:].
HistoryWindow == 6

\* A chat_id path parameter that names no chat ever created.
NoSuchChat == 0

Roles == {"user", "system"}
Contents == {"q1"}

----------------------------------------------------------------------------
(* Sequences. *)

Max(a, b) == IF a >= b THEN a ELSE b

Range(s) == {s[i] : i \in DOMAIN s}

\* s[-n:]
LastN(s, n) == SubSeq(s, Max(1, Len(s) - n + 1), Len(s))

\* s[n:]
DropFirst(s, n) == SubSeq(s, n + 1, Len(s))

\* s[:-n]
DropLast(s, n) == SubSeq(s, 1, Len(s) - n)

StartsWith(s, p) == Len(s) >= Len(p) /\ SubSeq(s, 1, Len(p)) = p
EndsWith(s, p) == Len(s) >= Len(p) /\ SubSeq(s, Len(s) - Len(p) + 1, Len(s)) = p


\* One reading of the clock after a reading t.
Ticks(t) == {x \in t..(t + 1) : x <= MaxClock}

----------------------------------------------------------------------------
(* Texts.  The characters the model draws texts from. *)

Digits == {"1", "2"}
Whitespace == {" ", "\n"}
TextChars == {"1", ".", "\n", "a"}

\* All sequences over S of length at most n.
SeqsUpTo(S, n) == UNION {[1..k -> S] : k \in 0..n}

\* str.strip()
RECURSIVE LStrip(_)
LStrip(s) == IF s # <<>> /\ Head(s) \in Whitespace THEN LStrip(Tail(s)) ELSE s

RECURSIVE RStrip(_)
RStrip(s) ==
    IF s # <<>> /\ s[Len(s)] \in Whitespace THEN RStrip(DropLast(s, 1)) ELSE s

Strip(s) == RStrip(LStrip(s))

\* str.replace("\n", " ")
ReplaceNewlines(s) == [i \in DOMAIN s |-> IF s[i] = "\n" THEN " " ELSE s[i]]

----------------------------------------------------------------------------
(* extract_questions: re.findall(r'(\d+\..+?)(?=\n\d+\.|\Z)', text,        *)
(* flags=re.DOTALL), then strip and replace of every match.                *)

\* \d+ at p: the length of the run of digits that starts at p.
RECURSIVE DigitRun(_, _)
DigitRun(text, p) ==
    IF p <= Len(text) /\ text[p] \in Digits THEN 1 + DigitRun(text, p + 1) ELSE 0

\* \d+\. at p.  \d+ is greedy and backtracks, but a shorter run of digits is
\* followed by a digit, never by the period: only the whole run can match.
MarkerAt(text, p) ==
    LET k == DigitRun(text, p)
    IN  k >= 1 /\ p + k <= Len(text) /\ text[p + k] = "."

\* A lookahead that takes any \d+\. for the end of a match, whether or not
\* a newline comes before it.
LookaheadAnyMarker(text, e) ==
    \/ e = Len(text) + 1
    \/ e <= Len(text) /\ MarkerAt(text, e)

\* (?=\n\d+\.|\Z) at e, the position after the last character matched.
Lookahead(text, e) ==
    \/ e = Len(text) + 1
    \/ e <= Len(text) /\ text[e] = "\n" /\ MarkerAt(text, e + 1)

\* The position after the match that starts at p, 0 when none starts there.
\* .+? takes one character (any, with DOTALL) and then as few as the
\* lookahead allows.
MatchEnd(text, p) ==
    IF ~MarkerAt(text, p) THEN 0
    ELSE LET first == p + DigitRun(text, p) + 2
         IN  IF first > Len(text) + 1 THEN 0
             ELSE CHOOSE e \in first..(Len(text) + 1) :
                      /\ Lookahead(text, e)
                      /\ \A e2 \in first..(e - 1) : ~Lookahead(text, e2)

\* re.findall from position pos: the spans <<start, end>> of the matches,
\* leftmost first, each search resuming where the last match ended.
RECURSIVE FindAll(_, _)
FindAll(text, pos) ==
    IF pos > Len(text) THEN <<>>
    ELSE IF MatchEnd(text, pos) # 0
         THEN <<(<<pos, MatchEnd(text, pos) - 1>>)>> \o FindAll(text, MatchEnd(text, pos))
         ELSE FindAll(text, pos + 1)

extract_questions(text) ==
    LET spans == FindAll(text, 1)
    IN  [i \in DOMAIN spans |->
            ReplaceNewlines(Strip(SubSeq(text, spans[i][1], spans[i][2])))]

----------------------------------------------------------------------------
(* extract_text_from_file.                                                  *)
(*                                                                          *)
(* An uploaded file is [filename, content_type, bytes, pdf]: content_type   *)
(* is "" when the part declares none (Python's None: the code only tests    *)
(* it for equality and for truth), bytes is what file.read() returns, and   *)
(* pdf is what pdfplumber does with those bytes, [error, pages]: error is   *)
(* <<>> or <<reason>> (open or extract_text raising, or pdfplumber not      *)
(* imported) and pages holds, per page, <<>> (extract_text gave None) or    *)
(* <<text>>.                                                                *)
(* A call that may raise gives [raised |-> TRUE] or                         *)
(* [raised |-> FALSE, value |-> v].                                         *)

Raised == [raised |-> TRUE]
Returned(v) == [raised |-> FALSE, value |-> v]

UnableToDecode == <<"Unable to decode file content">>
NotAvailable ==
    <<"File uploaded but text extraction not available for this type. Please describe the content.">>
PdfError(reason) == <<"Error extracting PDF text: ", reason>>

\* The characters of the code points the model's bytes decode to.
Chr == [cp \in {10, 32, 46, 49, 50, 97, 233} |->
          CASE cp = 10 -> "\n"
            [] cp = 32 -> " "
            [] cp = 46 -> "."
            [] cp = 49 -> "1"
            [] cp = 50 -> "2"
            [] cp = 97 -> "a"
            [] cp = 233 -> "U+00E9"]

IsContinuation(b) == 128 <= b /\ b <= 191

\* bytes.decode('utf-8') of one- and two-byte sequences; every other byte
\* (a continuation byte with no lead, 0xC0, 0xC1, 0xE0 and above) raises
\* here: the model draws no lead byte of a longer sequence.
RECURSIVE decode_utf8(_)
decode_utf8(bytes) ==
    IF bytes = <<>> THEN Returned(<<>>)
    ELSE LET b == Head(bytes)
         IN  IF b < 128
             THEN LET rest == decode_utf8(Tail(bytes))
                  IN  IF rest.raised THEN Raised
                      ELSE Returned(<<Chr[b]>> \o rest.value)
             ELSE IF 194 <= b /\ b <= 223 /\ Len(bytes) >= 2 /\ IsContinuation(bytes[2])
             THEN LET rest == decode_utf8(Tail(Tail(bytes)))
                  IN  IF rest.raised THEN Raised
                      ELSE Returned(<<Chr[(b - 192) * 64 + (bytes[2] - 128)]>> \o rest.value)
             ELSE Raised

\* for page in pdf.pages: text += (page.extract_text() or "") + "\n"
RECURSIVE PdfText(_)
PdfText(pages) ==
    IF pages = <<>> THEN <<>>
    ELSE (IF Head(pages) = <<>> THEN <<>> ELSE Head(pages)[1]) \o <<"\n">>
         \o PdfText(Tail(pages))

\* with pdfplumber.open(...) as pdf: ... : raises when the library does.
pdfplumber_extract(pdf) ==
    IF pdf.error # <<>> THEN Raised ELSE Returned(PdfText(pdf.pages))

\* A try block with no except clause.
Uncaught(attempt, fallback) == attempt

\* try: text = attempt / except: text = fallback
TryExcept(attempt, fallback) ==
    IF attempt.raised THEN Returned(fallback) ELSE attempt

extract_text_from_file(file) ==
    IF file.content_type = "text/plain"
    THEN TryExcept(decode_utf8(file.bytes), UnableToDecode)
    ELSE IF file.content_type = "application/pdf"
    THEN TryExcept(pdfplumber_extract(file.pdf),
                   PdfError(IF file.pdf.error = <<>> THEN "" ELSE file.pdf.error[1]))
    ELSE Returned(NotAvailable)

----------------------------------------------------------------------------
(* generate_ai_response.                                                    *)
(*                                                                          *)
(* The text of the model's reply is a sequence of characters in which a    *)
(* whole JSON document (or a piece of prose) is one element: the slices    *)
(* [7:] and [:-3] only ever remove fence characters.  What the genai       *)
(* library does is llm = [construct_raises, generate_raises, text].        *)

\* The backquote character, written out.
Backquote == "BACKQUOTE"
Fence == <<Backquote, Backquote, Backquote>>
FenceJson == Fence \o <<"j", "s", "o", "n">>

\* The JSON documents of the model, as json.loads reads them.
JsonObjects ==
    [x \in {"{content}", "{content,notes}", "{has_notes}"} |->
        CASE x = "{content}" -> [content |-> "Hi."]
          [] x = "{content,notes}" ->
                 [content |-> "Hi.", has_notes |-> TRUE, notes |-> <<"n1">>]
          [] x = "{has_notes}" -> [has_notes |-> FALSE]]
JsonOthers == {"[]"}
NotJson == {"Sure"}

\* AIResponse(...): the fields with their defaults (src/main.py:96-102).
AIResponse(content, has_notes, notes, has_questions, questions, follow_up_actions) ==
    [content |-> content, has_notes |-> has_notes, notes |-> notes,
     has_questions |-> has_questions, questions |-> questions,
     follow_up_actions |-> follow_up_actions]

UnavailableContent ==
    "I'm here to help! Please tell me what topic you'd like to study or what questions you have."
FallbackContent ==
    "I'm here to help with your studies! What would you like to learn about?"

\* AIResponse(content=..., has_notes=False, has_questions=False)
UnavailableResponse == AIResponse(UnavailableContent, FALSE, <<>>, FALSE, <<>>, <<>>)
\* AIResponse(content=...)
FallbackResponse == AIResponse(FallbackContent, FALSE, <<>>, FALSE, <<>>, <<>>)

\* The fence handling of lines 192-196.
StripFences(response_text) ==
    LET t1 == IF StartsWith(response_text, FenceJson)
              THEN DropFirst(response_text, 7) ELSE response_text
        t2 == IF EndsWith(t1, Fence) THEN DropLast(t1, 3) ELSE t1
    IN  Strip(t2)

\* AIResponse(**json.loads(text)): json.loads raises unless the text is one
\* JSON document (it allows whitespace around it); ** raises unless the
\* document is an object; the constructor raises when content is missing.
ParseAIResponse(text) ==
    LET t == Strip(text)
    IN  IF Len(t) # 1 \/ t[1] \notin DOMAIN JsonObjects THEN Raised
        ELSE LET d == JsonObjects[t[1]]
                 Has(k) == k \in DOMAIN d
             IN  IF ~Has("content") THEN Raised
                 ELSE Returned(AIResponse(
                          d.content,
                          IF Has("has_notes") THEN d.has_notes ELSE FALSE,
                          IF Has("notes") THEN <<d.notes>> ELSE <<>>,
                          FALSE, <<>>, <<>>))

\* The try block of lines 188-199, before the except clause.
ShapeReply(llm) ==
    IF llm.generate_raises THEN Raised
    ELSE ParseAIResponse(StripFences(llm.text))

generate_ai_response(available, llm) ==
    IF ~available THEN Returned(UnavailableResponse)
    ELSE IF llm.construct_raises THEN Raised
    ELSE TryExcept(ShapeReply(llm), FallbackResponse)

----------------------------------------------------------------------------
(* split_lines, on the contents an assistant message can have: the two     *)
(* fixed replies hold two sentences, which re.split parts at the           *)
(* whitespace after "!"; "Hi." is one sentence and comes back as it is.    *)

split_lines(text) ==
    CASE text = UnavailableContent ->
             "I'm here to help!\nPlease tell me what topic you'd like to study or what questions you have."
      [] text = FallbackContent ->
             "I'm here to help with your studies!\nWhat would you like to learn about?"
      [] text = "Hi." -> "Hi."

----------------------------------------------------------------------------
(* The store and its handlers.                                              *)
(*                                                                          *)
(* A chat is [id, created_at, updated_at]; its title, curriculum and        *)
(* language are copied from the request and only ever read into the        *)
(* prompt.  A message is [id, chat_id, role, content, created_at]; its     *)
(* metadata is a copy of the reply's fields.  A document is [id, chat_id,  *)
(* filename, mime_type, extracted_text, questions, uploaded_at].           *)

\* sorted(seq, key=...): the keys are Key[i] for seq[i].  Python's sort is
\* stable, and with reverse=True equal keys keep their order too.
SortedBy(seq, Key, descending) ==
    LET Before(j, i) ==
            \/ (IF descending THEN Key[j] > Key[i] ELSE Key[j] < Key[i])
            \/ Key[j] = Key[i] /\ j < i
        Rank(i) == Cardinality({j \in DOMAIN seq : Before(j, i)}) + 1
    IN  [r \in DOMAIN seq |-> seq[CHOOSE i \in DOMAIN seq : Rank(i) = r]]

ChatIds == {memory_chats[i].id : i \in DOMAIN memory_chats}

\* memory_chats.get(chat_id), for a chat_id that is a key.
ChatOf(chat_id) ==
    memory_chats[CHOOSE i \in DOMAIN memory_chats : memory_chats[i].id = chat_id]

\* The chat_id a client sends: a chat's, or one that is no chat's.  The
\* handlers only test a chat_id for being a key and for equality, so one
\* absent identifier stands for all of them.
ClientChatIds == {NoSuchChat} \cup ChatIds

OfChat(seq, chat_id) == SelectSeq(seq, LAMBDA v : v.chat_id = chat_id)
NotOfChat(seq, chat_id) == SelectSeq(seq, LAMBDA v : v.chat_id # chat_id)

get_chats ==
    SortedBy(memory_chats, [i \in DOMAIN memory_chats |-> memory_chats[i].updated_at], TRUE)

get_messages(chat_id) ==
    LET messages == OfChat(memory_messages, chat_id)
    IN  SortedBy(messages, [i \in DOMAIN messages |-> messages[i].created_at], FALSE)

get_files(chat_id) ==
    LET files == OfChat(memory_files, chat_id)
    IN  SortedBy(files, [i \in DOMAIN files |-> files[i].uploaded_at], TRUE)

RolesAndContents(messages) ==
    [i \in DOMAIN messages |->
        [role |-> messages[i].role, content |-> messages[i].content]]

\* previous_messages of lines 280-284, read from a store.
PreviousMessages(messages, chat_id) ==
    LET sorted == SortedBy(messages,
                           [i \in DOMAIN messages |-> messages[i].created_at], FALSE)
    IN  LastN(RolesAndContents(OfChat(sorted, chat_id)), HistoryWindow)

\* file_context of lines 286-293: per document of the chat its name, text
\* and questions, in the order of memory_files.
FileContext(chat_id) ==
    LET files == OfChat(memory_files, chat_id)
    IN  [i \in DOMAIN files |->
            [original_name |-> files[i].filename,
             extracted_text |-> files[i].extracted_text,
             questions |-> files[i].questions]]

Idle == [active |-> FALSE]

\* str(uuid.uuid4()) for a record of the kind.
Uuid4(kind) == n_uuid[kind] + 1
Issued(kind, n) == [n_uuid EXCEPT ![kind] = @ + n]
IssuedInAll == n_uuid.chat + n_uuid.message + n_uuid.document

\* The identifiers the tasks of the upload in flight have yet to draw: the
\* bound on uuid4 is checked with them counted, so that no task is stopped
\* by the bound.
Reserved ==
    IF up.active
    THEN Cardinality({i \in DOMAIN up.files : up.pc[i] \in {"pending", "reading"}})
    ELSE 0

\* What the import of google.generativeai did, as far as this run can tell.
ImportOutcomes ==
    IF GENAI_AVAILABLE = "unread" THEN {"yes", "no"} ELSE {GENAI_AVAILABLE}

\* What the genai library can do in a run of the store.
LlmBehaviours ==
    {[construct_raises |-> TRUE, generate_raises |-> FALSE, text |-> <<>>],
     [construct_raises |-> FALSE, generate_raises |-> TRUE, text |-> <<>>],
     [construct_raises |-> FALSE, generate_raises |-> FALSE,
      text |-> FenceJson \o <<"\n", "{content}", "\n">> \o Fence],
     [construct_raises |-> FALSE, generate_raises |-> FALSE, text |-> <<"Sure">>]}

NoPdf == [error |-> <<>>, pages |-> <<>>]

\* The files a client uploads in a run of the store.
UploadFileSet ==
    {[filename |-> "notes.txt", content_type |-> "text/plain",
      bytes |-> <<49, 46, 97>>, pdf |-> NoPdf],
     [filename |-> "bad.txt", content_type |-> "text/plain",
      bytes |-> <<255>>, pdf |-> NoPdf]}

create_chat ==
    /\ IssuedInAll + Reserved < MaxUuids
    /\ \E now \in Ticks(clock) :
         LET chat_doc == [id |-> Uuid4("chat"), created_at |-> now, updated_at |-> now]
         IN  /\ memory_chats' = Append(memory_chats, chat_doc)
             /\ clock' = now
             /\ n_uuid' = Issued("chat", 1)
             /\ last' = [op |-> "create_chat", chat_id |-> chat_doc.id, status |-> 200]
    /\ UNCHANGED <<memory_messages, memory_files, GENAI_AVAILABLE,
                   up, call, ret>>

\* A delete_chat that removes the chat and its messages and leaves its
\* documents in memory_files.
delete_chat_keeps_files(chat_id) ==
    /\ IF chat_id \notin ChatIds
       THEN UNCHANGED <<store, last>>
       ELSE /\ memory_messages' = NotOfChat(memory_messages, chat_id)
            /\ memory_files' = memory_files
            /\ memory_chats' = SelectSeq(memory_chats, LAMBDA c : c.id # chat_id)
            /\ last' = [op |-> "delete_chat", chat_id |-> chat_id, status |-> 200,
                        deleted_msgs |-> Len(OfChat(memory_messages, chat_id)),
                        deleted_files |-> Len(OfChat(memory_files, chat_id))]
    /\ UNCHANGED <<GENAI_AVAILABLE, clock, n_uuid, up, call, ret>>

delete_chat(chat_id) ==
    /\ IF chat_id \notin ChatIds
       THEN \* 404: nothing changes
            UNCHANGED <<store, last>>
       ELSE /\ memory_messages' = NotOfChat(memory_messages, chat_id)
            /\ memory_files' = NotOfChat(memory_files, chat_id)
            /\ memory_chats' = SelectSeq(memory_chats, LAMBDA c : c.id # chat_id)
            /\ last' = [op |-> "delete_chat", chat_id |-> chat_id, status |-> 200,
                        deleted_msgs |-> Len(OfChat(memory_messages, chat_id)),
                        deleted_files |-> Len(OfChat(memory_files, chat_id))]
    /\ UNCHANGED <<GENAI_AVAILABLE, clock, n_uuid, up, call, ret>>

\* memory_chats[chat_id]["updated_at"] = now
Touch(chats, chat_id, now) ==
    [i \in DOMAIN chats |->
        IF chats[i].id = chat_id THEN [chats[i] EXCEPT !.updated_at = now]
        ELSE chats[i]]

send_message(chat_id, role, content) ==
    /\ IF chat_id \notin ChatIds
       THEN \* 404: nothing changes
            UNCHANGED <<store, clock, n_uuid, last, GENAI_AVAILABLE>>
       ELSE /\ IssuedInAll + Reserved + (IF role = "user" THEN 2 ELSE 1) <= MaxUuids
            /\ \E t1 \in Ticks(clock) :
                 LET user_message_doc ==
                         [id |-> Uuid4("message"), chat_id |-> chat_id, role |-> role,
                          content |-> content, created_at |-> t1]
                     stored == Append(memory_messages, user_message_doc)
                 IN  IF role # "user"
                     THEN /\ memory_messages' = stored
                          /\ clock' = t1
                          /\ n_uuid' = Issued("message", 1)
                          /\ last' = [op |-> "send_message", chat_id |-> chat_id,
                                      role |-> role, status |-> 200, handed |-> <<>>]
                          /\ UNCHANGED <<memory_chats, memory_files, GENAI_AVAILABLE>>
                     ELSE \E available \in ImportOutcomes : \E llm \in LlmBehaviours :
                            LET handed ==
                                    [previous_messages |-> PreviousMessages(stored, chat_id),
                                     file_context |-> FileContext(chat_id)]
                                reply == generate_ai_response(available = "yes", llm)
                            IN  IF reply.raised
                                THEN \* the exception leaves the handler: the
                                     \* user message stays, no reply is stored
                                     /\ memory_messages' = stored
                                     /\ GENAI_AVAILABLE' = available
                                     /\ clock' = t1
                                     /\ n_uuid' = Issued("message", 1)
                                     /\ last' = [op |-> "send_message", chat_id |-> chat_id,
                                                 role |-> role, status |-> 500,
                                                 handed |-> <<handed>>]
                                     /\ UNCHANGED <<memory_chats, memory_files>>
                                ELSE \E t2 \in Ticks(t1) : \E t3 \in Ticks(t2) :
                                       LET ai_message_doc ==
                                               [id |-> Uuid4("message") + 1, chat_id |-> chat_id,
                                                role |-> "assistant",
                                                content |-> split_lines(reply.value.content),
                                                created_at |-> t2]
                                       IN  /\ memory_messages' = Append(stored, ai_message_doc)
                                           /\ GENAI_AVAILABLE' = available
                                           /\ memory_chats' = Touch(memory_chats, chat_id, t3)
                                           /\ clock' = t3
                                           /\ n_uuid' = Issued("message", 2)
                                           /\ last' = [op |-> "send_message",
                                                       chat_id |-> chat_id, role |-> role,
                                                       status |-> 200,
                                                       handed |-> <<handed>>]
                                           /\ UNCHANGED memory_files
    /\ UNCHANGED <<up, call, ret>>

\* A gather that hands the results over in the order the tasks ended, which
\* is the order of the identifiers they drew.
gather_as_completed(request) ==
    LET results == [i \in DOMAIN request.files |-> request.results[i][1]]
    IN  SortedBy(results, [i \in DOMAIN results |-> results[i].id], FALSE)

\* asyncio.gather(*tasks): the results in the order of the tasks.
gather(request) == [i \in DOMAIN request.files |-> request.results[i][1]]

AllDone(request) == \A i \in DOMAIN request.files : request.pc[i] \in {"done", "failed"}

\* upload_files up to its await: the tasks are created, none has run.  The
\* request keeps the number of documents inserted so far, for the record
\* "last" of what its tasks inserted.
upload_files(chat_id, files) ==
    /\ ~up.active
    /\ IssuedInAll + Len(files) <= MaxUuids
    /\ up' = [active |-> TRUE, chat_id |-> chat_id, files |-> files,
              pc |-> [i \in DOMAIN files |-> "pending"],
              results |-> [i \in DOMAIN files |-> <<>>],
              documents_before |-> n_uuid.document]
    /\ last' = [op |-> "upload_files", chat_id |-> chat_id, status |-> 0]
    /\ UNCHANGED <<store, GENAI_AVAILABLE, clock, n_uuid, call, ret>>

\* process_file from the await of file.read() to its return.
FinishFile(i) ==
    LET file == up.files[i]
        extracted == extract_text_from_file(file)
    IN  IF extracted.raised
        THEN \* the task ends with the exception
             /\ up' = [up EXCEPT !.pc[i] = "failed"]
             /\ UNCHANGED <<memory_files, clock, n_uuid>>
        ELSE \E now \in Ticks(clock) :
               LET file_doc ==
                       [id |-> Uuid4("document"), chat_id |-> up.chat_id,
                        filename |-> file.filename,
                        mime_type |-> IF file.content_type = ""
                                      THEN "application/octet-stream"
                                      ELSE file.content_type,
                        extracted_text |-> extracted.value,
                        questions |-> extract_questions(extracted.value),
                        uploaded_at |-> now]
               IN  /\ memory_files' = Append(memory_files, file_doc)
                   /\ clock' = now
                   /\ n_uuid' = Issued("document", 1)
                   /\ up' = [up EXCEPT !.pc[i] = "done", !.results[i] = <<file_doc>>]

\* The first step of task i.  The event loop starts the tasks in the order
\* gather made them.  file.read() returns at once for a file held in memory
\* and suspends the task (run_in_threadpool) for one spooled to disk.
process_file(i) ==
    /\ up.active
    /\ i \in DOMAIN up.files
    /\ up.pc[i] = "pending"
    /\ \A j \in 1..(i - 1) : up.pc[j] # "pending"
    /\ \/ /\ up' = [up EXCEPT !.pc[i] = "reading"]
          /\ UNCHANGED <<memory_files, clock, n_uuid>>
       \/ FinishFile(i)
    /\ last' = [op |-> "process_file", chat_id |-> up.chat_id, status |-> 0]
    /\ UNCHANGED <<memory_chats, memory_messages, GENAI_AVAILABLE,
                   call, ret>>

\* Task i resumes after file.read().
process_file_resume(i) ==
    /\ up.active
    /\ i \in DOMAIN up.files
    /\ up.pc[i] = "reading"
    /\ FinishFile(i)
    /\ last' = [op |-> "process_file", chat_id |-> up.chat_id, status |-> 0]
    /\ UNCHANGED <<memory_chats, memory_messages, GENAI_AVAILABLE,
                   call, ret>>

\* upload_files after its await: every task has ended.  gather raises the
\* exception of a task that failed, and the handler does not catch it.
upload_files_return ==
    /\ up.active
    /\ AllDone(up)
    /\ last' = IF \E i \in DOMAIN up.files : up.pc[i] = "failed"
               THEN [op |-> "upload_files", chat_id |-> up.chat_id, status |-> 500,
                     request |-> up.files, files |-> <<>>,
                     inserted |-> n_uuid.document - up.documents_before]
               ELSE [op |-> "upload_files", chat_id |-> up.chat_id, status |-> 200,
                     request |-> up.files, files |-> gather(up),
                     inserted |-> n_uuid.document - up.documents_before]
    /\ up' = Idle
    /\ UNCHANGED <<store, GENAI_AVAILABLE, clock, n_uuid, call, ret>>

\* get_chat: the chat, or 404.
get_chat(chat_id) ==
    IF chat_id \notin ChatIds THEN [status |-> 404, body |-> <<>>]
    ELSE [status |-> 200, body |-> <<ChatOf(chat_id)>>]

NoCall == [fn |-> "none"]

\* The store when the module has been imported: lines 58-60.
StoreAtStart ==
    /\ memory_chats = <<>>
    /\ memory_messages = <<>>
    /\ memory_files = <<>>
    /\ GENAI_AVAILABLE = "unread"
    /\ clock = 0
    /\ n_uuid = [chat |-> 0, message |-> 0, document |-> 0]
    /\ up = Idle
    /\ last = [op |-> "start", chat_id |-> NoSuchChat, status |-> 0]

Init ==
    /\ StoreAtStart
    /\ call = NoCall
    /\ ret = <<>>

Batches == UNION {[1..k -> UploadFileSet] : k \in 1..MaxBatch}

Next ==
    \/ create_chat
    \/ \E chat_id \in ClientChatIds : delete_chat(chat_id)
    \/ \E chat_id \in ClientChatIds, role \in Roles, content \in Contents :
           send_message(chat_id, role, content)
    \/ \E chat_id \in ClientChatIds, files \in Batches : upload_files(chat_id, files)
    \/ \E i \in 1..MaxBatch : process_file(i)
    \/ \E i \in 1..MaxBatch : process_file_resume(i)
    \/ upload_files_return

Spec == Init /\ [][Next]_vars

\* The chats and their messages alone: no upload.
NextChat ==
    \/ create_chat
    \/ \E chat_id \in ClientChatIds : delete_chat(chat_id)
    \/ \E chat_id \in ClientChatIds, role \in Roles, content \in Contents :
           send_message(chat_id, role, content)

SpecChat == Init /\ [][NextChat]_vars

\* The chats and their documents alone: no message.
NextUp ==
    \/ create_chat
    \/ \E chat_id \in ClientChatIds : delete_chat(chat_id)
    \/ \E chat_id \in ClientChatIds, files \in Batches : upload_files(chat_id, files)
    \/ \E i \in 1..MaxBatch : process_file(i)
    \/ \E i \in 1..MaxBatch : process_file_resume(i)
    \/ upload_files_return

SpecUp == Init /\ [][NextUp]_vars

----------------------------------------------------------------------------
(* The functions on their own: a call is drawn at the start, the one       *)
(* action applies the function to it and keeps the result in ret.          *)

called == UNCHANGED <<store, GENAI_AVAILABLE, clock, n_uuid, up, last, call>>

QuestionCalls ==
    {[fn |-> "extract_questions", text |-> text] :
        text \in SeqsUpTo(TextChars, MaxTextLen)}

call_extract_questions ==
    /\ call.fn = "extract_questions"
    /\ ret = <<>>
    /\ ret' = <<extract_questions(call.text)>>
    /\ called

InitQuestions == StoreAtStart /\ call \in QuestionCalls /\ ret = <<>>

SpecQuestions == InitQuestions /\ [][call_extract_questions]_vars

\* The bytes of the files: "1", ".", a newline, the two bytes of U+00E9, and
\* 0xFF, which no UTF-8 text holds.
ByteValues == {49, 46, 10, 195, 169, 255}

PdfOutcomes ==
    {NoPdf,
     [error |-> <<"No /Root object">>, pages |-> <<>>],
     [error |-> <<"name 'pdfplumber' is not defined">>, pages |-> <<>>],
     [error |-> <<>>, pages |-> << <<>>, << <<"a", ".">> >> >>]}

ExtractCalls ==
    {[fn |-> "extract_text_from_file",
      file |-> [filename |-> "f", content_type |-> content_type,
                bytes |-> bytes, pdf |-> pdf]] :
        content_type \in {"text/plain", "application/pdf", "image/png", ""},
        bytes \in SeqsUpTo(ByteValues, MaxBytes),
        pdf \in PdfOutcomes}

call_extract_text_from_file ==
    /\ call.fn = "extract_text_from_file"
    /\ ret = <<>>
    /\ ret' = <<extract_text_from_file(call.file)>>
    /\ called

InitExtract == StoreAtStart /\ call \in ExtractCalls /\ ret = <<>>

SpecExtract == InitExtract /\ [][call_extract_text_from_file]_vars

\* The replies of the model: a body, with or without a fence before and
\* after it, and with or without a newline at each joint.
MaybeNewline == {<<>>, <<"\n">>}

ReplyText(lead, open, gap1, body, gap2, close, trail) ==
    lead \o open \o gap1 \o <<body>> \o gap2 \o close \o trail

ShaperCalls ==
    {[fn |-> "generate_ai_response", available |-> available,
      lead |-> lead, open |-> open, gap1 |-> gap1, body |-> body,
      gap2 |-> gap2, close |-> close, trail |-> trail,
      llm |-> [construct_raises |-> construct_raises,
               generate_raises |-> generate_raises,
               text |-> ReplyText(lead, open, gap1, body, gap2, close, trail)]] :
        available \in BOOLEAN,
        construct_raises \in BOOLEAN, generate_raises \in BOOLEAN,
        lead \in MaybeNewline, open \in {<<>>, Fence, FenceJson},
        gap1 \in MaybeNewline,
        body \in DOMAIN JsonObjects \cup JsonOthers \cup NotJson,
        gap2 \in MaybeNewline, close \in {<<>>, Fence}, trail \in MaybeNewline}

call_generate_ai_response ==
    /\ call.fn = "generate_ai_response"
    /\ ret = <<>>
    /\ ret' = <<generate_ai_response(call.available, call.llm)>>
    /\ called

InitShaper == StoreAtStart /\ call \in ShaperCalls /\ ret = <<>>

SpecShaper == InitShaper /\ [][call_generate_ai_response]_vars

----------------------------------------------------------------------------
(* The store's properties.                                                  *)

\* C1: a delete_chat of an existing chat c leaves no message and no document
\* of c in the store and c is no chat any more; get_chat(c) then answers 404,
\* get_messages(c) and get_files(c) answer the empty list, and the messages
\* and documents of the other chats are what they were.
DeleteCascades ==
    [][\A c \in ChatIds :
          delete_chat(c) =>
              /\ c \notin ChatIds'
              /\ \A m \in Range(memory_messages') : m.chat_id # c
              /\ \A d \in Range(memory_files') : d.chat_id # c
              /\ get_chat(c)'.status = 404
              /\ get_messages(c)' = <<>>
              /\ get_files(c)' = <<>>
              /\ memory_messages' = NotOfChat(memory_messages, c)
              /\ memory_files' = NotOfChat(memory_files, c)]_vars

\* A chat with two messages and one document has just been deleted.
DeletedTwoMessagesOneDocument ==
    /\ last.op = "delete_chat"
    /\ last.status = 200
    /\ last.deleted_msgs = 2
    /\ last.deleted_files = 1
    /\ last.chat_id \notin ChatIds

FreshChatFirstExchange ==
    [][\A c \in ChatIds :
          (/\ OfChat(memory_messages, c) = <<>>
           /\ ChatOf(c).updated_at = ChatOf(c).created_at
           /\ \E content \in Contents : send_message(c, "user", content))
          => /\ Len(get_messages(c)') = 2
             /\ get_messages(c)'[1].role = "user"
             /\ get_messages(c)'[2].role = "assistant"
             /\ get_messages(c)'[1].created_at <= get_messages(c)'[2].created_at
             /\ ChatOf(c)'.updated_at > ChatOf(c)'.created_at]_vars

\* C3: updated_at of a chat never decreases, and a send_message that appends
\* a message to the chat, of whatever role, sets it to a reading of the
\* clock no earlier than the creation of that message.
UpdatedAtAdvances ==
    [][\A c \in ChatIds :
          /\ c \in ChatIds' => ChatOf(c)'.updated_at >= ChatOf(c).updated_at
          /\ \A role \in Roles, content \in Contents :
                send_message(c, role, content) =>
                    ChatOf(c)'.updated_at >=
                        memory_messages'[Len(memory_messages')].created_at]_vars

\* C4: send_message for a user message hands to generate_ai_response the
\* last HistoryWindow role/content pairs the chat held before that message,
\* oldest first.
ContextPrecedesNewMessage ==
    [][\A c \in ChatIds : \A content \in Contents :
          send_message(c, "user", content) =>
              last'.handed[1].previous_messages =
                  LastN(RolesAndContents(get_messages(c)), HistoryWindow)]_vars

\* C5: generate_ai_response raises nothing, so a send_message for a user
\* message ends with the assistant's reply stored last, with a content.
ReplyAlwaysStored ==
    (last.op = "send_message" /\ last.role = "user") =>
        /\ last.status = 200
        /\ memory_messages # <<>>
        /\ LET reply == memory_messages[Len(memory_messages)]
           IN  /\ reply.chat_id = last.chat_id
               /\ reply.role = "assistant"
               /\ reply.content # ""

\* C10: every stored message and every stored document belongs to a chat
\* there is.
NoOrphans ==
    /\ \A m \in Range(memory_messages) : m.chat_id \in ChatIds
    /\ \A d \in Range(memory_files) : d.chat_id \in ChatIds

----------------------------------------------------------------------------
(* The functions' properties.                                               *)

\* The positions where a run \d+\. of the text begins.
MarkerStarts(text) ==
    {p \in DOMAIN text :
        MarkerAt(text, p) /\ (p = 1 \/ text[p - 1] \notin Digits)}

\* A newline with a run \d+\. right after it.
LineMarker(text, e) ==
    e \in DOMAIN text /\ text[e] = "\n" /\ MarkerAt(text, e + 1)

RECURSIVE Ascending(_)
Ascending(S) ==
    IF S = {} THEN <<>>
    ELSE LET m == CHOOSE x \in S : \A y \in S : x <= y
         IN  <<m>> \o Ascending(S \ {m})

\* C9: extract_questions gives, in the order of the text, one entry for each
\* span of it, where the spans are such that: a span begins at a run \d+\.
\* and holds at least one character after the period; it ends at the end of
\* the text or before a newline that has a run \d+\. right after it, and
\* holds no such newline past its first character after the period; the
\* spans do not overlap; every run \d+\. that has a character after its
\* period lies in a span.  The entry is the span trimmed, its newlines made
\* spaces, and begins with the numeral and the period of the span.  A text
\* with no run \d+\. gives no entry.
QuestionsFollowLineMarkers ==
    (call.fn = "extract_questions" /\ ret # <<>>) =>
        LET text == call.text
            questions == ret[1]
            spans == FindAll(text, 1)
            Numeral(i) == DigitRun(text, spans[i][1])
            AfterPeriod(i) == spans[i][1] + Numeral(i) + 1
        IN  /\ Len(questions) = Len(spans)
            /\ \A i \in DOMAIN spans :
                   /\ MarkerAt(text, spans[i][1])
                   /\ AfterPeriod(i) <= spans[i][2]
                   /\ spans[i][2] <= Len(text)
                   /\ spans[i][2] = Len(text) \/ LineMarker(text, spans[i][2] + 1)
                   /\ \A e \in (AfterPeriod(i) + 1)..spans[i][2] : ~LineMarker(text, e)
                   /\ i > 1 => spans[i][1] > spans[i - 1][2]
                   /\ questions[i] =
                          ReplaceNewlines(Strip(SubSeq(text, spans[i][1], spans[i][2])))
                   /\ SubSeq(questions[i], 1, Numeral(i) + 1) =
                          SubSeq(text, spans[i][1], spans[i][1] + Numeral(i))
            /\ \A p \in DOMAIN text :
                   (MarkerAt(text, p) /\ p + DigitRun(text, p) < Len(text)) =>
                       \E i \in DOMAIN spans : spans[i][1] <= p /\ p <= spans[i][2]
            /\ MarkerStarts(text) = {} => questions = <<>>

\* Two runs \d+\., the second at the start of a line, gave two entries.
TwoLinesTwoQuestions ==
    /\ call.fn = "extract_questions"
    /\ ret # <<>>
    /\ Len(ret[1]) = 2
    /\ Cardinality(MarkerStarts(call.text)) = 2

\* C9: extract_questions gives one entry for each run \d+\. of the text, in
\* the order of the text: the entry of a run is the text from it to the next
\* run or to the end of the text, trimmed and with its newlines made spaces.
OneEntryPerMarker ==
    (call.fn = "extract_questions" /\ ret # <<>>) =>
        LET text == call.text
            questions == ret[1]
            starts == Ascending(MarkerStarts(text))
            End(i) == IF i = Len(starts) THEN Len(text) ELSE starts[i + 1] - 1
        IN  /\ Len(questions) = Len(starts)
            /\ \A i \in DOMAIN starts :
                   questions[i] =
                       ReplaceNewlines(Strip(SubSeq(text, starts[i], End(i))))

FencedParsesAsUnfenced ==
    (/\ call.fn = "generate_ai_response"
     /\ ret # <<>>
     /\ call.available
     /\ ~call.llm.construct_raises
     /\ ~call.llm.generate_raises
     /\ call.body \in DOMAIN JsonObjects
     /\ call.open # <<>>
     /\ call.close # <<>>) =>
        ret[1] = generate_ai_response(TRUE, [call.llm EXCEPT !.text = <<call.body>>])

====
